---- MODULE Spec2Model ----
(***************************************************************************)
(* GNSS fix-acquisition loop of GNSS_Nrf91 (components/gnss/gnss.c and     *)
(* src/main.c).                                                            *)
(*                                                                         *)
(* Two execution contexts:                                                 *)
(*   - gnss_event_handler, the callback the modem library invokes for      *)
(*     every receiver notification.  It runs to completion and may start   *)
(*     between any two steps of the main loop.                             *)
(*   - the main loop, while (1) gnss_start_searching(), modelled one       *)
(*     statement group at a time (variable pc).                            *)
(***************************************************************************)
EXTENDS Integers, Sequences, FiniteSets, TLC

VARIABLES
    pc,             \* position of the main loop inside gnss_start_searching
    pvt_data_sem,   \* count of the semaphore pvt_data_sem
    events,         \* events[i].state = ready, i = 0 (semaphore), 1 (msgq)
    nmea_queue,     \* content of nmea_queue, oldest first (buffer addresses)
    heap,           \* addresses handed out by k_malloc and not yet k_free'd
    heap_err,       \* TRUE once k_free was called on a block that is not live
    nmea_data,      \* the global pointer nmea_data of the main loop
    last_pvt,       \* the global frame last_pvt
    fix_timestamp,  \* uint32_t fix_timestamp, in units of 8 ms
    cnt,            \* uint8_t cnt
    first_display,  \* static bool first_display
    uptime,         \* k_uptime_get(), 64 bit, in units of 8 ms
    cfg_lat,        \* CONFIG_GNSS_SAMPLE_REFERENCE_LATITUDE, a string
    cfg_lon,        \* CONFIG_GNSS_SAMPLE_REFERENCE_LONGITUDE, a string
    ref_used,       \* bool ref_used
    ref_latitude,   \* double ref_latitude
    ref_longitude,  \* double ref_longitude
    erased,         \* lines_to_clear of the latest render (0: no erase)
    drawn,          \* view drawn by the latest render: "none", "search", "fix"
    shown,          \* which frame (tag) each part of the current render read
    indicator,      \* index into update_indicator last printed (NoIndex: none)
    secs,           \* "Seconds since last fix" last printed
    stats,          \* "Tracking: Using: Unhealthy:" line last printed
    distance,       \* "Distance from reference" line of the latest render
    did,            \* work done in the current dispatch cycle, in order
    evt,            \* outcome of the latest gnss_event_handler call
    pend,           \* successful PVT reads since the last k_sem_take (2 = 2 or more)
    batch,          \* value of pend at the latest k_sem_take
    latest,         \* frame of the latest successful PVT read
    npvt,           \* PVT notifications delivered so far
    nnmea,          \* NMEA notifications delivered so far
    nticks,         \* clock advances so far
    fixed_at,       \* uptime (64 bit) at the latest fix render, or at start
    written         \* terminal lines written by the latest render so far

env == <<npvt, nnmea, nticks>>
prog == <<pc, pvt_data_sem, events, nmea_queue, heap, heap_err, nmea_data,
          last_pvt, fix_timestamp, cnt, first_display, uptime>>
term == <<erased, drawn, shown, indicator, secs, stats, distance>>
hist == <<did, evt, pend, batch, latest>>
ref == <<cfg_lat, cfg_lon, ref_used, ref_latitude, ref_longitude>>
vars == <<prog, term, hist, env, ref, fixed_at, written>>

----------------------------------------------------------------------------
(* Bounds of the model *)
MaxPvt == 3
MaxNmea == 2
MaxTicks == 2
MaxWrapTicks == 1
TickShort == 125
TickLong == 536870849
MaxSat == 3
MaxPvtFew == 1
MantBits == 12

(* Constants of the program *)
NMEA_QUEUE_LEN == 10
PVT_SEM_LIMIT == 1
LINES_FIX == 20
LINES_SEARCH == 4
INDICATOR_LEN == 4
UINT8_RANGE == 256

\* Times are counted in units of 8 ms, so that 2^32 ms fits the integers of the
\* model checker: every clock value of the model is a multiple of 8 ms, for
\* which x mod 2^32 ms and x div 1000 ms are exactly (x/8) mod 2^29 and
\* (x/8) div 125.
UINT32_RANGE == 536870912
MS_PER_SEC == 125

NoTag == -1
NoIndex == -1

Buffers == 1 .. (NMEA_QUEUE_LEN + 2)
Range(q) == {q[i] : i \in 1 .. Len(q)}

----------------------------------------------------------------------------
(* Kernel primitives as the program uses them *)

\* variant: a semaphore created without the limit of 1
k_sem_give_nolimit(count) == count + 1

\* k_sem_give on a semaphore with limit PVT_SEM_LIMIT
k_sem_give(count) == IF count < PVT_SEM_LIMIT THEN count + 1 ELSE count

\* variant: a give or a put never marks an event of a blocked poller ready
poll_signal_none(i) == events

\* a give/put signals a registered poller: the event's state becomes ready
\* only while the main loop is blocked in k_poll
poll_signal(i) == IF pc = "wait" THEN [events EXCEPT ![i] = TRUE] ELSE events

\* variant: a full queue overwrites its oldest entry
k_msgq_put_evict(q, b) ==
    IF Len(q) < NMEA_QUEUE_LEN
    THEN [q |-> Append(q, b), ret |-> 0]
    ELSE [q |-> Append(Tail(q), b), ret |-> 0]

\* k_msgq_put(&nmea_queue, &b, K_NO_WAIT)
k_msgq_put(q, b) ==
    IF Len(q) < NMEA_QUEUE_LEN
    THEN [q |-> Append(q, b), ret |-> 0]
    ELSE [q |-> q, ret |-> -1]

\* variant: the newest entry is taken instead of the oldest
k_msgq_get_newest(q) == [item |-> q[Len(q)], q |-> SubSeq(q, 1, Len(q) - 1)]

\* k_msgq_get(&nmea_queue, &item, K_NO_WAIT) on a queue that is not empty
k_msgq_get(q) == [item |-> Head(q), q |-> Tail(q)]

\* k_malloc returns a block that is not live.  The program never compares
\* addresses, so the model fixes the choice: the first block when nothing is
\* live, otherwise the lowest free block that follows a live one.
prev_block(b) == IF b = 1 THEN NMEA_QUEUE_LEN + 2 ELSE b - 1
after_live(h) == {b \in Buffers \ h : prev_block(b) \in h}
k_malloc(h) ==
    IF h = {} THEN 1
    ELSE CHOOSE b \in after_live(h) : \A c \in after_live(h) : b <= c

\* variant: the block stays allocated
k_free_keep(h, b) == h

\* k_free(b)
k_free(h, b) == h \ {b}

\* variant: the error test written as retval > 0 (the error codes are negative)
must_free_positive(retval) == retval > 0

\* gnss.c:171  if (retval != 0) k_free(nmea_data)
must_free(retval) == retval # 0

\* fix_timestamp = k_uptime_get(): int64_t to uint32_t, a time in 8 ms units
to_uint32(x) == x % UINT32_RANGE

\* (uint32_t)(... / 1000): a plain number of seconds modulo 2^32
secs_to_uint32(x) == x - ((x \div 65536) \div 65536) * 65536 * 65536

\* variant: a counter that wraps one value early
cnt_inc_short(c) == (c + 1) % (UINT8_RANGE - 1)

\* cnt++ on uint8_t
cnt_inc(c) == (c + 1) % UINT8_RANGE

\* refresh_display: int lines_to_clear = has_fix ? 20 : 4
lines_to_clear(has_fix) == IF has_fix THEN LINES_FIX ELSE LINES_SEARCH

NoneShown == [erase |-> NoTag, stats |-> NoTag, flags |-> NoTag,
              branch |-> NoTag, data |-> NoTag]

----------------------------------------------------------------------------
(* double arithmetic.  A double is a sign s, a mantissa m of MantBits bits   *)
(* (0 for zero) and an exponent e: its value is s * m * 2^e.  Every          *)
(* operation returns the exact result rounded to nearest, ties to even, as   *)
(* IEEE 754 does; the model keeps MantBits bits where a double keeps 53 and  *)
(* has no exponent limits.  NaN is the result of a domain error.             *)

Zero == [s |-> 1, m |-> 0, e |-> 0]
NaN == [s |-> 0, m |-> 0, e |-> 0]
is_nan(a) == a.s = 0

RECURSIVE bit_length(_)
bit_length(n) == IF n = 0 THEN 0 ELSE 1 + bit_length(n \div 2)

\* s * n * 2^e rounded to MantBits bits
fl(s, n, e) ==
    IF n = 0 THEN Zero
    ELSE LET k == bit_length(n) - MantBits
         IN  IF k <= 0
             THEN [s |-> s, m |-> n * 2^(-k), e |-> e + k]
             ELSE LET q == n \div 2^k
                      r == n % 2^k
                      h == 2^(k - 1)
                      m1 == IF r > h \/ (r = h /\ q % 2 = 1) THEN q + 1 ELSE q
                  IN  IF m1 = 2^MantBits
                      THEN [s |-> s, m |-> 2^(MantBits - 1), e |-> e + k + 1]
                      ELSE [s |-> s, m |-> m1, e |-> e + k]

from_int(n) == IF n < 0 THEN fl(-1, -n, 0) ELSE fl(1, n, 0)

fneg(a) == IF a.m = 0 THEN a ELSE [a EXCEPT !.s = -a.s]
fabs(a) == IF a.m = 0 THEN a ELSE [a EXCEPT !.s = 1]

\* a * b
fmul(a, b) ==
    IF is_nan(a) \/ is_nan(b) THEN NaN
    ELSE fl(a.s * b.s, a.m * b.m, a.e + b.e)

\* a + b: exact when the exponents are close, otherwise the smaller operand
\* is below a quarter of the last bit of the larger one
fadd(a, b) ==
    IF is_nan(a) \/ is_nan(b) THEN NaN
    ELSE IF a.m = 0 THEN b
    ELSE IF b.m = 0 THEN a
    ELSE LET hi == IF a.e >= b.e THEN a ELSE b
             lo == IF a.e >= b.e THEN b ELSE a
             d == hi.e - lo.e
             n == hi.s * hi.m * 2^d + lo.s * lo.m
         IN  IF d > MantBits + 2 THEN hi
             ELSE IF n < 0 THEN fl(-1, -n, lo.e) ELSE fl(1, n, lo.e)

\* a - b
fsub(a, b) == fadd(a, fneg(b))

\* a / b, b not zero
fdiv(a, b) ==
    IF is_nan(a) \/ is_nan(b) THEN NaN
    ELSE IF a.m = 0 THEN Zero
    ELSE LET num == a.m * 2^(MantBits + 2)
             q == num \div b.m
             sticky == IF num % b.m = 0 THEN 0 ELSE 1
         IN  fl(a.s * b.s, 2 * q + sticky, a.e - b.e - MantBits - 3)

\* a < b
flt(a, b) == LET d == fsub(a, b) IN d.m # 0 /\ d.s = -1

One == from_int(1)
Two == from_int(2)

\* a decimal constant digits * 10^-places
decimal(digits, places) == fdiv(from_int(digits), from_int(10^places))

(* libm: sin, cos, asin, sqrt, pow(x, 2) *)

RECURSIVE isqrt(_, _, _)
isqrt(n, lo, hi) ==
    IF lo = hi THEN lo
    ELSE LET mid == (lo + hi + 1) \div 2
         IN  IF mid * mid <= n THEN isqrt(n, mid, hi) ELSE isqrt(n, lo, mid - 1)

sqrt(a) ==
    IF is_nan(a) \/ (a.m # 0 /\ a.s = -1) THEN NaN
    ELSE IF a.m = 0 THEN Zero
    ELSE LET j == IF (a.e - MantBits) % 2 = 0 THEN MantBits + 2
                                               ELSE MantBits + 3
             n == a.m * 2^j
             r == isqrt(n, 0, 2^(MantBits + 2))
             sticky == IF r * r = n THEN 0 ELSE 1
         IN  fl(1, 2 * r + sticky, ((a.e - j) \div 2) - 1)

\* pow(x, n) for a natural number n
RECURSIVE pow(_, _)
pow(x, n) == IF n = 0 THEN One ELSE IF n = 1 THEN x ELSE fmul(x, pow(x, n - 1))

\* 1 - (z/d1) * (1 - (z/d2) * (1 - ...)): the series of sin and cos
RECURSIVE series_alt(_, _)
series_alt(z, ds) ==
    IF ds = <<>> THEN One
    ELSE fsub(One, fmul(fdiv(z, from_int(Head(ds))), series_alt(z, Tail(ds))))

\* 1 + z*(n1/d1) * (1 + z*(n2/d2) * (1 + ...)): the series of asin
RECURSIVE series_pos(_, _)
series_pos(z, cs) ==
    IF cs = <<>> THEN One
    ELSE fadd(One, fmul(fmul(z, fdiv(from_int(Head(cs)[1]),
                                     from_int(Head(cs)[2]))),
                        series_pos(z, Tail(cs))))

PI == decimal(314159265, 8)
HALF_PI == fdiv(PI, Two)

sin_kernel(x) == fmul(x, series_alt(fmul(x, x), <<6, 20, 42, 72, 110, 156>>))
cos_kernel(x) == series_alt(fmul(x, x), <<2, 12, 30, 56, 90, 132>>)

\* sin(x) for |x| <= pi
sin(x) ==
    IF is_nan(x) THEN NaN
    ELSE LET ax == fabs(x)
             r == IF flt(HALF_PI, ax) THEN sin_kernel(fsub(PI, ax))
                                      ELSE sin_kernel(ax)
         IN  IF x.s = -1 THEN fneg(r) ELSE r

\* cos(x) for |x| <= pi
cos(x) ==
    IF is_nan(x) THEN NaN
    ELSE LET ax == fabs(x)
         IN  IF flt(HALF_PI, ax) THEN fneg(cos_kernel(fsub(PI, ax)))
                                 ELSE cos_kernel(ax)

asin_kernel(y) ==
    fmul(y, series_pos(fmul(y, y), <<<<1, 6>>, <<9, 20>>, <<25, 42>>, <<49, 72>>,
                                  <<81, 110>>, <<121, 156>>, <<169, 210>>,
                                  <<225, 272>>>>))

\* asin(y): NaN outside [-1, 1]
asin(y) ==
    IF is_nan(y) \/ flt(One, fabs(y)) THEN NaN
    ELSE LET ay == fabs(y)
             r == IF flt(fdiv(One, Two), ay)
                  THEN fsub(HALF_PI,
                            fmul(Two, asin_kernel(sqrt(fdiv(fsub(One, ay), Two)))))
                  ELSE asin_kernel(ay)
         IN  IF y.s = -1 THEN fneg(r) ELSE r

(* gnss.c:28-31 *)
EARTH_RADIUS_METERS == fmul(from_int(6371), from_int(1000))
DEG_TO_RAD == fdiv(PI, from_int(180))

\* variant: the difference of the latitudes taken as their sum
distance_calculate_sum(lat1, lon1, lat2, lon2) ==
    LET d_lat_rad == fmul(fadd(lat2, lat1), DEG_TO_RAD)
        d_lon_rad == fmul(fsub(lon2, lon1), DEG_TO_RAD)
        lat1_rad == fmul(lat1, DEG_TO_RAD)
        lat2_rad == fmul(lat2, DEG_TO_RAD)
        a == fadd(pow(sin(fdiv(d_lat_rad, Two)), 2),
                  fmul(fmul(pow(sin(fdiv(d_lon_rad, Two)), 2), cos(lat1_rad)),
                       cos(lat2_rad)))
        c == fmul(Two, asin(sqrt(a)))
    IN  fmul(EARTH_RADIUS_METERS, c)

\* gnss.c:77-93
distance_calculate(lat1, lon1, lat2, lon2) ==
    LET d_lat_rad == fmul(fsub(lat2, lat1), DEG_TO_RAD)
        d_lon_rad == fmul(fsub(lon2, lon1), DEG_TO_RAD)
        lat1_rad == fmul(lat1, DEG_TO_RAD)
        lat2_rad == fmul(lat2, DEG_TO_RAD)
        a == fadd(pow(sin(fdiv(d_lat_rad, Two)), 2),
                  fmul(fmul(pow(sin(fdiv(d_lon_rad, Two)), 2), cos(lat1_rad)),
                       cos(lat2_rad)))
        c == fmul(Two, asin(sqrt(a)))
    IN  fmul(EARTH_RADIUS_METERS, c)

----------------------------------------------------------------------------
(* main.c:19-26, the reference position.  A configuration string is a       *)
(* sequence of characters; sizeof(CONFIG_...) > 1 says it is not empty.      *)

is_digit(c) == c \in {"0", "1", "2", "3", "4", "5", "6", "7", "8", "9"}
digit_value(c) ==
    CASE c = "0" -> 0 [] c = "1" -> 1 [] c = "2" -> 2 [] c = "3" -> 3
      [] c = "4" -> 4 [] c = "5" -> 5 [] c = "6" -> 6 [] c = "7" -> 7
      [] c = "8" -> 8 [] c = "9" -> 9

\* number of digits of str from position i on
RECURSIVE digits_run(_, _)
digits_run(str, i) ==
    IF i <= Len(str) /\ is_digit(str[i]) THEN 1 + digits_run(str, i + 1) ELSE 0

\* value of the n digits of str from position i on, appended to acc
RECURSIVE digits_value(_, _, _, _)
digits_value(str, i, n, acc) ==
    IF n = 0 THEN acc
    ELSE digits_value(str, i + 1, n - 1, 10 * acc + digit_value(str[i]))

\* atof: an optional sign, digits, an optional point and digits; the
\* conversion stops at the first character that fits no number, and a string
\* that starts with no number converts to 0.0
atof(str) ==
    LET signed == Len(str) > 0 /\ str[1] \in {"-", "+"}
        i == IF signed THEN 2 ELSE 1
        n1 == digits_run(str, i)
        point == i + n1 <= Len(str) /\ str[i + n1] = "."
        n2 == IF point THEN digits_run(str, i + n1 + 1) ELSE 0
        whole == digits_value(str, i, n1, 0)
        all == digits_value(str, i + n1 + 1, n2, whole)
        v == decimal(all, n2)
    IN  IF n1 + n2 = 0 THEN Zero
        ELSE IF signed /\ str[1] = "-" THEN fneg(v) ELSE v

\* variant: the reference is used as soon as one of the strings is not empty
main_reference_either(lat, lon) ==
    IF Len(lat) > 0 \/ Len(lon) > 0
    THEN [used |-> TRUE, latitude |-> atof(lat), longitude |-> atof(lon)]
    ELSE [used |-> FALSE, latitude |-> Zero, longitude |-> Zero]

\* main.c:19-26
main_reference(lat, lon) ==
    IF Len(lat) > 0 /\ Len(lon) > 0
    THEN [used |-> TRUE, latitude |-> atof(lat), longitude |-> atof(lon)]
    ELSE [used |-> FALSE, latitude |-> Zero, longitude |-> Zero]

NoDistance == [printed |-> FALSE, value |-> Zero]

\* gnss.c:111-122
print_distance_from_reference(pvt_data) ==
    IF ~ref_used THEN NoDistance
    ELSE [printed |-> TRUE,
          value |-> distance_calculate(pvt_data.latitude, pvt_data.longitude,
                                       ref_latitude, ref_longitude)]

----------------------------------------------------------------------------
(* PVT frames and print_satellite_stats *)

NRF_MODEM_GNSS_MAX_SATELLITES == MaxSat
NRF_MODEM_GNSS_SV_FLAG_USED_IN_FIX == "USED_IN_FIX"
NRF_MODEM_GNSS_SV_FLAG_UNHEALTHY == "UNHEALTHY"

\* sv[i] of a frame: the satellite identifier (0: no satellite) and the flags
SvFlags == {NRF_MODEM_GNSS_SV_FLAG_USED_IN_FIX, NRF_MODEM_GNSS_SV_FLAG_UNHEALTHY}
NoSats == [i \in 1 .. NRF_MODEM_GNSS_MAX_SATELLITES |-> [sv |-> 0, flags |-> {}]]

\* the fields of nrf_modem_gnss_pvt_data_frame the program reads; tag names
\* the notification the frame was read for
FrameOf(f, t, sats, lat, lon) ==
    [fix |-> f, tag |-> t, sv |-> sats, latitude |-> lat, longitude |-> lon,
     flags |-> {}]
Frame(f, t) == FrameOf(f, t, NoSats, Zero, Zero)

\* the advisory bits of pvt_data->flags
NRF_MODEM_GNSS_PVT_FLAG_DEADLINE_MISSED == "DEADLINE_MISSED"
NRF_MODEM_GNSS_PVT_FLAG_NOT_ENOUGH_WINDOW_TIME == "NOT_ENOUGH_WINDOW_TIME"
NRF_MODEM_GNSS_PVT_FLAG_SLEEP_BETWEEN_PVT == "SLEEP_BETWEEN_PVT"
NRF_MODEM_GNSS_PVT_FLAG_SCHED_DOWNLOAD == "SCHED_DOWNLOAD"
PvtFlags == {NRF_MODEM_GNSS_PVT_FLAG_DEADLINE_MISSED,
             NRF_MODEM_GNSS_PVT_FLAG_NOT_ENOUGH_WINDOW_TIME,
             NRF_MODEM_GNSS_PVT_FLAG_SLEEP_BETWEEN_PVT,
             NRF_MODEM_GNSS_PVT_FLAG_SCHED_DOWNLOAD}
FrameFlagged(f, t, flags) == [Frame(f, t) EXCEPT !.flags = flags]

\* The texts the program prints, as sequences of pieces: "LF" is the line
\* feed written \n in the source and "CR" the carriage return written \r; any
\* other piece stands for text without a line feed.
RECURSIVE line_feeds(_)
line_feeds(text) ==
    IF text = <<>> THEN 0
    ELSE (IF Head(text) = "LF" THEN 1 ELSE 0) + line_feeds(Tail(text))

\* printf(text): the terminal goes to a new line at every line feed
printf(text) == line_feeds(text)

\* LOG_INF / LOG_WRN (text): the logger ends the message with a line break of
\* its own
LOG(text) == line_feeds(text) + 1

RECURSIVE LOG_each(_)
LOG_each(texts) ==
    IF texts = <<>> THEN 0 ELSE LOG(Head(texts)) + LOG_each(Tail(texts))

\* gnss.c:221  LOG_INF("Tracking: %2d Using: %2d Unhealthy: %d", ...)
stats_text == <<"Tracking: %2d Using: %2d Unhealthy: %d">>

\* variant: the advisory messages are not printed
print_flags_none(pvt_data) == LOG_each(<<>>)

\* gnss.c:240-258: one message for each advisory flag that is set
print_flags(pvt_data) ==
    LOG_each(
        (IF NRF_MODEM_GNSS_PVT_FLAG_DEADLINE_MISSED \in pvt_data.flags
         THEN <<(<<"GNSS operation blocked by LTE", "LF">>)>> ELSE <<>>)
     \o (IF NRF_MODEM_GNSS_PVT_FLAG_NOT_ENOUGH_WINDOW_TIME \in pvt_data.flags
         THEN <<(<<"Insufficient GNSS time windows", "LF">>)>> ELSE <<>>)
     \o (IF NRF_MODEM_GNSS_PVT_FLAG_SLEEP_BETWEEN_PVT \in pvt_data.flags
         THEN <<(<<"Sleep period(s) between PVT notifications", "LF">>)>>
         ELSE <<>>)
     \o (IF NRF_MODEM_GNSS_PVT_FLAG_SCHED_DOWNLOAD \in pvt_data.flags
         THEN <<(<<"Scheduled navigation data download", "LF">>)>>
         ELSE <<>>))

\* gnss.c:507  printf("-----------------------------------\n")
separator_text == <<"-----------------------------------", "LF">>

\* gnss.c:276-302: the seventeen messages of print_fix_data
print_fix_data ==
    LOG_each(<< <<"Latitude:          %.06f">>,
                <<"Longitude:         %.06f">>,
                <<"Accuracy:          %.01f m">>,
                <<"Altitude:          %.01f m">>,
                <<"Altitude accuracy: %.01f m">>,
                <<"Speed:             %.01f m/s">>,
                <<"Speed accuracy:    %.01f m/s">>,
                <<"V. speed:          %.01f m/s">>,
                <<"V. speed accuracy: %.01f m/s">>,
                <<"Heading:           %.01f deg">>,
                <<"Heading accuracy:  %.01f deg">>,
                <<"Date:              %04u-%02u-%02u">>,
                <<"Time (UTC):        %02u:%02u:%02u.%03u">>,
                <<"PDOP:              %.01f">>,
                <<"HDOP:              %.01f">>,
                <<"VDOP:              %.01f">>,
                <<"TDOP:              %.01f", "LF">> >>)

\* gnss.c:121  LOG_INF("Distance from reference: %.01f\n\r", distance)
distance_text == <<"Distance from reference: %.01f", "LF", "CR">>

\* gnss.c:517, 520
seconds_text == <<"Seconds since last fix: %d">>
searching_text == <<"Searching [%c]">>

uint8_inc(c) == (c + 1) % UINT8_RANGE

NoStats == [printed |-> FALSE, tracked |-> 0, in_fix |-> 0, unhealthy |-> 0]

\* variant: the flags are counted whatever the identifier
sat_count_any(acc, rec) ==
    [acc EXCEPT
        !.tracked = IF rec.sv > 0 THEN uint8_inc(@) ELSE @,
        !.in_fix = IF NRF_MODEM_GNSS_SV_FLAG_USED_IN_FIX \in rec.flags
                   THEN uint8_inc(@) ELSE @,
        !.unhealthy = IF NRF_MODEM_GNSS_SV_FLAG_UNHEALTHY \in rec.flags
                      THEN uint8_inc(@) ELSE @]

\* gnss.c:205-219, the body of the loop
sat_count(acc, rec) ==
    IF rec.sv > 0
    THEN [acc EXCEPT
            !.tracked = uint8_inc(@),
            !.in_fix = IF NRF_MODEM_GNSS_SV_FLAG_USED_IN_FIX \in rec.flags
                       THEN uint8_inc(@) ELSE @,
            !.unhealthy = IF NRF_MODEM_GNSS_SV_FLAG_UNHEALTHY \in rec.flags
                          THEN uint8_inc(@) ELSE @]
    ELSE acc

\* for (int i = 0; i < NRF_MODEM_GNSS_MAX_SATELLITES; ++i)
RECURSIVE sat_loop(_, _, _)
sat_loop(sv, i, acc) ==
    IF i < NRF_MODEM_GNSS_MAX_SATELLITES
    THEN sat_loop(sv, i + 1, sat_count(acc, sv[i + 1]))
    ELSE acc

\* gnss.c:197-222
print_satellite_stats(pvt_data) ==
    sat_loop(pvt_data.sv, 0,
             [printed |-> TRUE, tracked |-> 0, in_fix |-> 0, unhealthy |-> 0])

----------------------------------------------------------------------------
\* the state once main has set the reference position and gnss_init_and_start
\* has returned, for reference strings lat and lon; with got, the state after
\* the callback has then handled one PVT notification that read frame
Started(lat, lon, frame, got) ==
    /\ pc = "poll"
    /\ pvt_data_sem = (IF got THEN 1 ELSE 0)
    /\ events = [i \in {0, 1} |-> FALSE]
    /\ nmea_queue = <<>>
    /\ heap = {}
    /\ heap_err = FALSE
    /\ nmea_data = 0
    /\ last_pvt = frame
    /\ uptime = 0
    /\ fix_timestamp = to_uint32(0)
    /\ cnt = 0
    /\ first_display = TRUE
    /\ cfg_lat = lat
    /\ cfg_lon = lon
    /\ ref_used = main_reference(lat, lon).used
    /\ ref_latitude = main_reference(lat, lon).latitude
    /\ ref_longitude = main_reference(lat, lon).longitude
    /\ erased = 0
    /\ drawn = "none"
    /\ shown = NoneShown
    /\ indicator = NoIndex
    /\ secs = 0
    /\ stats = NoStats
    /\ distance = NoDistance
    /\ did = <<>>
    /\ evt = [kind |-> IF got THEN "pvt" ELSE "none",
              outcome |-> IF got THEN "given" ELSE "none", log |-> "none"]
    /\ pend = (IF got THEN 1 ELSE 0)
    /\ batch = 0
    /\ latest = frame
    /\ npvt = (IF got THEN 1 ELSE 0)
    /\ nnmea = 0
    /\ nticks = 0
    /\ fixed_at = 0
    /\ written = 0

\* no reference position configured (the strings have no default value)
Init == Started(<<>>, <<>>, Frame(FALSE, 0), FALSE)

----------------------------------------------------------------------------
(* gnss_event_handler, case NRF_MODEM_GNSS_EVT_PVT *)

\* variant: the semaphore is given whatever the read returned
read_succeeded_always(retval) == TRUE

\* gnss.c:149  if (retval == 0) k_sem_give(&pvt_data_sem)
read_succeeded(retval) == retval = 0

\* retval = nrf_modem_gnss_read(&last_pvt, sizeof(last_pvt), ..._PVT): a
\* failed read returns an error code and leaves last_pvt as it was
gnss_event_handler_PVT(readOK, frame) ==
    /\ last_pvt' = IF readOK THEN frame ELSE last_pvt
    /\ latest' = IF readOK THEN frame ELSE latest
    /\ IF read_succeeded(IF readOK THEN 0 ELSE -1)
       THEN /\ pvt_data_sem' = k_sem_give(pvt_data_sem)
            /\ events' = poll_signal(0)
            /\ pend' = IF pend < 2 THEN pend + 1 ELSE pend
       ELSE UNCHANGED <<pvt_data_sem, events, pend>>
    /\ evt' = [kind |-> "pvt",
               outcome |-> IF readOK THEN "given" ELSE "read_fail",
               log |-> "none"]
    /\ UNCHANGED <<pc, nmea_queue, heap, heap_err, nmea_data, fix_timestamp,
                   cnt, first_display, uptime, term, did, batch,
                   ref, fixed_at, written>>

(* gnss_event_handler, case NRF_MODEM_GNSS_EVT_NMEA *)
gnss_event_handler_NMEA(allocOK, readOK) ==
    /\ IF ~allocOK \/ Buffers \ heap = {}
       THEN /\ evt' = [kind |-> "nmea", outcome |-> "alloc_fail", log |-> "err"]
            /\ UNCHANGED <<nmea_queue, heap, heap_err, events>>
       ELSE LET b == k_malloc(heap)
                h1 == heap \cup {b}
                put == IF readOK THEN k_msgq_put(nmea_queue, b)
                                 ELSE [q |-> nmea_queue, ret |-> -1]
                retval == put.ret
            IN  /\ nmea_queue' = put.q
                /\ heap' = IF must_free(retval) THEN k_free(h1, b) ELSE h1
                /\ heap_err' = (heap_err \/ (must_free(retval) /\ b \notin h1))
                /\ events' = IF retval = 0 THEN poll_signal(1) ELSE events
                /\ evt' = [kind |-> "nmea",
                           outcome |-> IF ~readOK THEN "read_fail"
                                       ELSE IF retval = 0 THEN "queued"
                                       ELSE "queue_full",
                           log |-> "none"]
    /\ UNCHANGED <<pc, pvt_data_sem, nmea_data, last_pvt, fix_timestamp, cnt,
                   first_display, uptime, term, did, pend, batch, latest,
                   ref, fixed_at, written>>

----------------------------------------------------------------------------
(* gnss_start_searching *)

\* k_poll(events, 2, K_FOREVER): returns at once when a condition is met,
\* marking every event whose condition is met; otherwise the thread blocks
Poll ==
    /\ pc = "poll"
    /\ LET r0 == pvt_data_sem > 0
           r1 == Len(nmea_queue) > 0
       IN  IF r0 \/ r1
           THEN /\ events' = [i \in {0, 1} |->
                                events[i] \/ (IF i = 0 THEN r0 ELSE r1)]
                /\ pc' = "take"
           ELSE /\ pc' = "wait"
                /\ UNCHANGED events
    /\ did' = <<>>
    /\ UNCHANGED <<pvt_data_sem, nmea_queue, heap, heap_err, nmea_data,
                   last_pvt, fix_timestamp, cnt, first_display, uptime,
                   term, evt, pend, batch, latest, env,
                   ref, fixed_at, written>>

\* the blocked k_poll returns once a give or a put marked an event ready
Wake ==
    /\ pc = "wait"
    /\ events[0] \/ events[1]
    /\ pc' = "take"
    /\ UNCHANGED <<pvt_data_sem, events, nmea_queue, heap, heap_err, nmea_data,
                   last_pvt, fix_timestamp, cnt, first_display, uptime,
                   term, hist, env,
                   ref, fixed_at, written>>

\* if (events[0].state == K_POLL_STATE_SEM_AVAILABLE &&
\*     k_sem_take(events[0].sem, K_NO_WAIT) == 0)
Take ==
    /\ pc = "take"
    /\ IF events[0] /\ pvt_data_sem > 0
       THEN /\ pvt_data_sem' = pvt_data_sem - 1
            /\ pend' = 0
            /\ batch' = pend
            /\ shown' = NoneShown
            /\ pc' = "refresh"
       ELSE /\ pc' = "nmea"
            /\ UNCHANGED <<pvt_data_sem, pend, batch, shown>>
    /\ UNCHANGED <<events, nmea_queue, heap, heap_err, nmea_data, last_pvt,
                   fix_timestamp, cnt, first_display, uptime, erased, drawn,
                   indicator, secs, stats, distance, did, evt, latest, env,
                   ref, fixed_at, written>>

\* variant: the previous view is erased in every render
must_refresh_always(first) == TRUE

\* gnss.c:497  if (!first_display)
must_refresh(first) == ~first

\* if (!first_display) refresh_display(last_pvt.flags & FIX_VALID);
\* first_display = false;
Refresh ==
    /\ pc = "refresh"
    /\ IF must_refresh(first_display)
       THEN /\ erased' = lines_to_clear(last_pvt.fix)
            /\ shown' = [shown EXCEPT !.erase = last_pvt.tag]
       ELSE /\ erased' = 0
            /\ UNCHANGED shown
    /\ first_display' = FALSE
    /\ written' = 0
    /\ pc' = "stats"
    /\ UNCHANGED <<pvt_data_sem, events, nmea_queue, heap, heap_err, nmea_data,
                   last_pvt, fix_timestamp, cnt, uptime, drawn, indicator,
                   secs, stats, distance, hist, env,
                   ref, fixed_at>>

\* print_satellite_stats(&last_pvt);
Stats ==
    /\ pc = "stats"
    /\ shown' = [shown EXCEPT !.stats = last_pvt.tag]
    /\ stats' = print_satellite_stats(last_pvt)
    /\ written' = written + LOG(stats_text)
    /\ pc' = "flags"
    /\ UNCHANGED <<pvt_data_sem, events, nmea_queue, heap, heap_err, nmea_data,
                   last_pvt, fix_timestamp, cnt, first_display, uptime, erased,
                   drawn, indicator, secs, distance, hist, env,
                   ref, fixed_at>>

\* print_flags(&last_pvt); printf("-----...\n");
Flags ==
    /\ pc = "flags"
    /\ shown' = [shown EXCEPT !.flags = last_pvt.tag]
    /\ written' = written + print_flags(last_pvt) + printf(separator_text)
    /\ pc' = "branch"
    /\ UNCHANGED <<pvt_data_sem, events, nmea_queue, heap, heap_err, nmea_data,
                   last_pvt, fix_timestamp, cnt, first_display, uptime, erased,
                   drawn, indicator, secs, stats, distance, hist, env,
                   ref, fixed_at>>

\* if (last_pvt.flags & FIX_VALID) { fix_timestamp = k_uptime_get(); ...
\* else { "Seconds since last fix"; cnt++; "Searching [%c]" }
Branch ==
    /\ pc = "branch"
    /\ shown' = [shown EXCEPT !.branch = last_pvt.tag]
    /\ IF last_pvt.fix
       THEN /\ fix_timestamp' = to_uint32(uptime)
            /\ fixed_at' = uptime
            /\ pc' = "fixdata"
            /\ UNCHANGED <<cnt, indicator, secs, drawn, distance, did,
                           written>>
       ELSE /\ secs' = secs_to_uint32((uptime - fix_timestamp) \div MS_PER_SEC)
            /\ cnt' = cnt_inc(cnt)
            /\ indicator' = cnt_inc(cnt) % INDICATOR_LEN
            /\ drawn' = "search"
            /\ distance' = NoDistance
            /\ written' = written + LOG(seconds_text) + LOG(searching_text)
            /\ did' = Append(did, "pvt")
            /\ pc' = "nmea"
            /\ UNCHANGED <<fix_timestamp, fixed_at>>
    /\ UNCHANGED <<pvt_data_sem, events, nmea_queue, heap, heap_err, nmea_data,
                   last_pvt, first_display, uptime, erased, stats, evt, pend,
                   batch, latest, env,
                   ref>>

\* print_fix_data(&last_pvt); print_distance_from_reference(&last_pvt);
FixData ==
    /\ pc = "fixdata"
    /\ shown' = [shown EXCEPT !.data = last_pvt.tag]
    /\ drawn' = "fix"
    /\ distance' = print_distance_from_reference(last_pvt)
    /\ written' = written + print_fix_data
                    + (IF print_distance_from_reference(last_pvt).printed
                       THEN LOG(distance_text) ELSE 0)
    /\ did' = Append(did, "pvt")
    /\ pc' = "nmea"
    /\ UNCHANGED <<pvt_data_sem, events, nmea_queue, heap, heap_err, nmea_data,
                   last_pvt, fix_timestamp, cnt, first_display, uptime, erased,
                   indicator, secs, stats, evt, pend, batch, latest, env,
                   ref, fixed_at>>

\* if (events[1].state == K_POLL_STATE_MSGQ_DATA_AVAILABLE &&
\*     k_msgq_get(events[1].msgq, &nmea_data, K_NO_WAIT) == 0)
\* variant: the NMEA test written as an else branch of the PVT test
nmea_available_else == events[1] /\ Len(nmea_queue) > 0 /\ did = <<>>

nmea_available == events[1] /\ Len(nmea_queue) > 0

Nmea ==
    /\ pc = "nmea"
    /\ IF nmea_available
       THEN /\ nmea_data' = k_msgq_get(nmea_queue).item
            /\ nmea_queue' = k_msgq_get(nmea_queue).q
            /\ pc' = "free"
       ELSE /\ pc' = "reset"
            /\ UNCHANGED <<nmea_data, nmea_queue>>
    /\ UNCHANGED <<pvt_data_sem, events, heap, heap_err, last_pvt,
                   fix_timestamp, cnt, first_display, uptime, term, hist, env,
                   ref, fixed_at, written>>

\* k_free(nmea_data);
Free ==
    /\ pc = "free"
    /\ heap' = k_free(heap, nmea_data)
    /\ heap_err' = (heap_err \/ nmea_data \notin heap)
    /\ did' = Append(did, "nmea")
    /\ pc' = "reset"
    /\ UNCHANGED <<pvt_data_sem, events, nmea_queue, nmea_data, last_pvt,
                   fix_timestamp, cnt, first_display, uptime, term, evt, pend,
                   batch, latest, env,
                   ref, fixed_at, written>>

\* variant: main leaves its loop once gnss_start_searching has returned 0
while_loop_until(retval) == IF retval = 0 THEN "exit" ELSE "poll"

\* main.c:40-43  while (1) { gnss_start_searching(); }
while_loop(retval) == "poll"

\* events[0].state = K_POLL_STATE_NOT_READY; events[1].state = ...; return 0;
Reset ==
    /\ pc = "reset"
    /\ events' = [i \in {0, 1} |-> FALSE]
    /\ pc' = while_loop(0)
    /\ UNCHANGED <<pvt_data_sem, nmea_queue, heap, heap_err, nmea_data,
                   last_pvt, fix_timestamp, cnt, first_display, uptime, term,
                   hist, env,
                   ref, fixed_at, written>>

MainLoop ==
    \/ Poll \/ Wake \/ Take \/ Refresh \/ Stats \/ Flags \/ Branch \/ FixData
    \/ Nmea \/ Free \/ Reset

----------------------------------------------------------------------------
(* The receiver and the clock *)

RecvPVT ==
    /\ npvt < MaxPvt
    /\ npvt' = npvt + 1
    /\ \E readOK \in BOOLEAN, f \in BOOLEAN :
          gnss_event_handler_PVT(readOK, Frame(f, npvt + 1))
    /\ UNCHANGED <<nnmea, nticks>>

RecvNMEA ==
    /\ nnmea < MaxNmea
    /\ nnmea' = nnmea + 1
    /\ \E allocOK \in BOOLEAN, readOK \in BOOLEAN :
          gnss_event_handler_NMEA(allocOK, readOK)
    /\ UNCHANGED <<npvt, nticks>>

\* the clock advances by one of the steps, at most limit times
Advance(limit, steps) ==
    /\ nticks < limit
    /\ nticks' = nticks + 1
    /\ \E d \in steps : uptime' = uptime + d
    /\ UNCHANGED <<pc, pvt_data_sem, events, nmea_queue, heap, heap_err,
                   nmea_data, last_pvt, fix_timestamp, cnt, first_display,
                   term, hist, npvt, nnmea,
                   ref, fixed_at, written>>

Tick == Advance(MaxTicks, {TickShort, TickLong})

TickSec == Advance(MaxWrapTicks, {TickShort})

\* the same notifications with no limit on their number
RecvPVTAny ==
    /\ \E readOK \in BOOLEAN, f \in BOOLEAN :
          gnss_event_handler_PVT(readOK, Frame(f, 0))
    /\ UNCHANGED env

RecvNMEAAny ==
    /\ \E allocOK \in BOOLEAN, readOK \in BOOLEAN :
          gnss_event_handler_NMEA(allocOK, readOK)
    /\ UNCHANGED env

\* a few PVT notifications
RecvPVTFew ==
    /\ npvt < MaxPvtFew
    /\ npvt' = npvt + 1
    /\ \E readOK \in BOOLEAN, f \in BOOLEAN :
          gnss_event_handler_PVT(readOK, Frame(f, npvt + 1))
    /\ UNCHANGED <<nnmea, nticks>>

\* the main loop when no NMEA record ever arrives, and when no PVT ever does
MainLoopPvt ==
    \/ Poll \/ Wake \/ Take \/ Refresh \/ Stats \/ Flags \/ Branch \/ FixData
    \/ Nmea \/ Reset

MainLoopNmea == Poll \/ Wake \/ Take \/ Nmea \/ Free \/ Reset

\* PVT and NMEA notifications, limited in number, at a fixed uptime
Next == MainLoop \/ RecvPVT \/ RecvNMEA
Spec == Init /\ [][Next]_vars

\* PVT notifications while the clock advances, across 2^32 ms of uptime
NextTime == MainLoopPvt \/ RecvPVT \/ Tick
SpecTime == Init /\ [][NextTime]_vars

\* any number of NMEA notifications: the queue fills up
NextNmea == MainLoopNmea \/ RecvNMEAAny
SpecNmea == Init /\ [][NextNmea]_vars

\* any number of PVT notifications: cnt runs through all its values
NextWrap == MainLoopPvt \/ RecvPVTAny \/ TickSec
SpecWrap == Init /\ [][NextWrap]_vars

\* any number of NMEA notifications and a few PVT notifications: every
\* failure of the handler (read, allocation, full queue) together with renders
NextAll == MainLoop \/ RecvPVTFew \/ RecvNMEAAny
SpecAll == Init /\ [][NextAll]_vars

\* an endless stream of NMEA notifications (allocation and read succeed; the
\* record is dropped when the queue is full)
RecvNMEAStream ==
    /\ gnss_event_handler_NMEA(TRUE, TRUE)
    /\ UNCHANGED env

\* a few PVT notifications in a stream of NMEA notifications, under fair
\* scheduling of the main thread: the thread takes its next step whenever it
\* is not blocked in k_poll.  The notifications have no fairness: the
\* receiver may stop at any time.
NextLive == MainLoop \/ RecvPVTFew \/ RecvNMEAStream
SpecLive == Init /\ [][NextLive]_vars /\ WF_vars(MainLoop)

\* limited numbers of notifications under fair scheduling of the main thread:
\* the notifications stop after some time
NextFair == MainLoop \/ RecvPVTFew \/ RecvNMEA
SpecFair == Init /\ [][NextFair]_vars /\ WF_vars(MainLoop)

\* the render of one frame: the steps of the main loop once a PVT notification
\* has been handled and while no further notification arrives
RenderOnce ==
    \/ Poll \/ Take \/ Refresh \/ Stats \/ Flags \/ Branch \/ FixData \/ Nmea
    \/ Reset

\* print_satellite_stats on every content of the satellite records
SatRecords == [sv : {0, 1}, flags : SUBSET SvFlags]
SatArrays == [1 .. NRF_MODEM_GNSS_MAX_SATELLITES -> SatRecords]
InitStats ==
    \E sats \in SatArrays, f \in BOOLEAN :
        Started(<<>>, <<>>, FrameOf(f, 1, sats, Zero, Zero), TRUE)
SpecStats == InitStats /\ [][RenderOnce]_vars

\* PVT notifications under every configuration of the reference strings:
\* empty, no number, a number followed by something else, numbers
CfgStrings == {<<>>, <<"x">>, <<"1", "2", "x">>, <<"6", "0">>,
               <<"-", "4", "5", ".", "5">>}
InitRef ==
    \E lat \in CfgStrings, lon \in CfgStrings :
        Started(lat, lon, Frame(FALSE, 0), FALSE)
NextRef == MainLoopPvt \/ RecvPVT
SpecRef == InitRef /\ [][NextRef]_vars

\* renders of one frame under every setting of its fix and advisory bits, with
\* and without a reference position: the receiver reports the frame, and
\* then the same frame again a few times
RecvPVTAgain ==
    /\ npvt < MaxPvtFew + 1
    /\ npvt' = npvt + 1
    /\ gnss_event_handler_PVT(TRUE, last_pvt)
    /\ UNCHANGED <<nnmea, nticks>>
InitLines ==
    \E f \in BOOLEAN, flags \in SUBSET PvtFlags,
       coord \in {<<>>, <<"6", "0">>} :
        Started(coord, coord, FrameFlagged(f, 1, flags), TRUE)
NextLines == MainLoopPvt \/ RecvPVTAgain
SpecLines == InitLines /\ [][NextLines]_vars

\* distance_calculate on every pair of a fix position and a reference position
\* taken from these decimal degrees: one frame with fix-valid set, rendered once
LatStrings == {<<"-", "9", "0">>, <<"-", "4", "5", ".", "5">>, <<"0">>,
               <<"3", "0">>, <<"5", "9", ".", "3", "2", "9", "3">>,
               <<"6", "0", ".", "1", "6", "9", "5">>}
LonStrings == {<<"-", "1", "2", "0">>, <<"0">>,
               <<"1", "8", ".", "0", "6", "8", "6">>,
               <<"2", "4", ".", "9", "3", "5", "4">>, <<"1", "8", "0">>}
InitGeo ==
    \E lat1 \in LatStrings, lon1 \in LonStrings,
       lat2 \in LatStrings, lon2 \in LonStrings :
        Started(lat2, lon2,
                FrameOf(TRUE, 1, NoSats, atof(lat1), atof(lon1)), TRUE)
SpecGeo == InitGeo /\ [][RenderOnce]_vars

----------------------------------------------------------------------------
(* Properties *)

display_state == <<last_pvt, fix_timestamp, cnt, first_display>>
ShownTags == {shown.erase, shown.stats, shown.flags, shown.branch,
              shown.data} \ {NoTag}
InHand == IF pc = "free" THEN {nmea_data} ELSE {}

\* C1: in every render but the first, the number of lines erased is the
\* height of the PREVIOUS render (4 after a searching view, 20 after a fix
\* view), whatever the frame rendered now.  Between the erase and the branch
\* of a render, drawn still is the view of the previous render.
C1_EraseHeightOfPreviousRender ==
    (pc \in {"stats", "flags", "branch"} /\ drawn # "none")
        => erased = lines_to_clear(drawn = "fix")

\* C2: all the parts of one render (erase decision, satellite stats, advisory
\* flags, fix-valid branch, fix data) read one and the same frame.
C2_RenderReadsOneSnapshot == Cardinality(ShownTags) <= 1

\* C3: the snapshot, the last-fix timestamp, the search counter and the
\* first-render flag change only in steps of the main loop (every step of the
\* main loop moves pc; a notification never does).
C3_DisplayStateOnlyByMainLoop ==
    [][display_state' # display_state => pc' # pc]_vars

\* C4: the PVT handoff holds at most one signal.  The count of pvt_data_sem is
\* never above 1; it is 1 exactly when one or more successful PVT reads have
\* not been consumed; one k_sem_take consumes them all, and the render that
\* follows shows the frame of the last of them as long as no further
\* notification arrives.
C4_SingleOutstandingSignal ==
    /\ pvt_data_sem \in {0, 1}
    /\ (pend >= 1) <=> (pvt_data_sem = 1)
    /\ pend = 0 => ShownTags \subseteq {latest.tag}
    /\ pend = 0 => last_pvt = latest

C4_Witness ==
    /\ batch = 2
    /\ pend = 0
    /\ pc = "nmea"
    /\ ShownTags = {latest.tag}

\* C5: the NMEA queue never holds more than 10 records, and a notification
\* that arrives while 10 are pending leaves the queue exactly as it was (the
\* new record is not enqueued, no entry is evicted) and leaves no block
\* allocated.
C5_QueueBoundedDropNewest ==
    /\ [](Len(nmea_queue) <= NMEA_QUEUE_LEN)
    /\ [][(pc' = pc /\ Len(nmea_queue) = NMEA_QUEUE_LEN)
            => (nmea_queue' = nmea_queue /\ heap' = heap)]_vars

C5_Witness ==
    /\ Len(nmea_queue) = NMEA_QUEUE_LEN
    /\ evt.outcome = "queue_full"

\* C6: no NMEA buffer is leaked or released twice: the live blocks are exactly
\* the blocks in the queue plus the one the main loop has dequeued and not yet
\* freed, no block is in the queue twice, and k_free is never called on a
\* block that is not live.
C6_NoLeakNoDoubleFree ==
    /\ heap = Range(nmea_queue) \cup InHand
    /\ Cardinality(Range(nmea_queue)) = Len(nmea_queue)
    /\ InHand \cap Range(nmea_queue) = {}
    /\ ~heap_err

C6_Witness ==
    /\ evt.outcome \in {"read_fail", "queue_full"}
    /\ Len(nmea_queue) = NMEA_QUEUE_LEN
    /\ pc = "free"

\* C7: when the main loop finds an NMEA record available it dequeues the
\* oldest record and frees it once; neither step writes to the terminal or
\* changes the snapshot, the timestamp, the counter or the first-render flag.
C7_NmeaDrainIsSilent ==
    [][/\ (pc = "nmea" /\ pc' # pc /\ events[1] /\ Len(nmea_queue) > 0)
            => /\ pc' = "free"
               /\ nmea_data' = Head(nmea_queue)
               /\ nmea_queue' = Tail(nmea_queue)
               /\ UNCHANGED <<heap, display_state, term>>
       /\ (pc = "free" /\ pc' # pc)
            => /\ nmea_data \in heap
               /\ heap' = heap \ {nmea_data}
               /\ UNCHANGED <<nmea_queue, display_state, term>>]_vars

C7_Witness ==
    /\ pc = "reset"
    /\ did = <<"nmea">>
    /\ drawn = "fix"
    /\ Len(nmea_queue) = 1

\* C8: in a dispatch cycle in which both the PVT signal and an NMEA record are
\* ready, the render is done first and the NMEA record is released second, in
\* that same cycle.
C8_PvtBeforeNmea ==
    /\ (pc \in {"refresh", "stats", "flags", "branch", "fixdata"})
            => did = <<>>
    /\ (pc = "reset" /\ events[0] /\ events[1]) => did = <<"pvt", "nmea">>

C8_Witness == pc = "reset" /\ events[0] /\ events[1] /\ did = <<"pvt", "nmea">>

\* C9: a render of a frame with fix-valid set stores the current time in the
\* last-fix timestamp and leaves cnt unchanged.
C9_FixRenderStampsCurrentTime ==
    [][(pc = "branch" /\ pc' # pc /\ last_pvt.fix)
            => (fix_timestamp' = uptime /\ cnt' = cnt)]_vars

\* C10: a render of a frame with fix-valid clear leaves the last-fix timestamp
\* unchanged and moves the printed indicator one position forward modulo 4,
\* also when cnt wraps from 255 to 0.
C10_SearchRenderAdvancesIndicator ==
    [][(pc = "branch" /\ pc' # pc /\ ~last_pvt.fix)
            => /\ fix_timestamp' = fix_timestamp
               /\ indicator' = ((cnt % INDICATOR_LEN) + 1) % INDICATOR_LEN
               /\ indicator # NoIndex
                    => indicator' = (indicator + 1) % INDICATOR_LEN]_vars

C10_Witness ==
    /\ cnt = 0
    /\ indicator = 0
    /\ uptime > fix_timestamp
    /\ pc = "nmea"

\* C11: the stored last-fix timestamp never decreases, and it changes only in
\* the render of a frame with fix-valid set (the step that leaves the branch
\* of gnss_start_searching).
C11_TimestampMonotonic ==
    [][/\ fix_timestamp' >= fix_timestamp
       /\ fix_timestamp' # fix_timestamp
            => (pc = "branch" /\ pc' = "fixdata" /\ last_pvt.fix)]_vars

\* char update_indicator[] = {'\\', '|', '/', '-'}, indexed from 0
update_indicator(i) == <<"\\", "|", "/", "-">>[i + 1]

\* C12: starting from the initial state, the first render of a frame with
\* fix-valid clear shows the indicator '\' (the first symbol of the sequence)
\* and the second such render shows '|'.  cnt counts the searching renders
\* done so far.
C12_IndicatorStartsAtFirstSymbol ==
    /\ (cnt = 1 /\ indicator # NoIndex) => update_indicator(indicator) = "\\"
    /\ (cnt = 2 /\ indicator # NoIndex) => update_indicator(indicator) = "|"

\* the records of the frame with a positive identifier, and those of them
\* that carry flag f
Tracked(frame) ==
    {i \in 1 .. NRF_MODEM_GNSS_MAX_SATELLITES : frame.sv[i].sv > 0}
Flagged(frame, f) == {i \in Tracked(frame) : f \in frame.sv[i].flags}

\* C13: the satellite line of a render reports exactly (K, M, U): K the number
\* of records with a positive identifier, M the number of those with the
\* used-in-fix flag, U the number of those with the unhealthy flag; a record
\* with identifier 0 counts for nothing, whatever its flags.
C13_SatelliteStatsCounts ==
    stats.printed =>
        /\ stats.tracked = Cardinality(Tracked(last_pvt))
        /\ stats.in_fix =
              Cardinality(Flagged(last_pvt, NRF_MODEM_GNSS_SV_FLAG_USED_IN_FIX))
        /\ stats.unhealthy =
              Cardinality(Flagged(last_pvt, NRF_MODEM_GNSS_SV_FLAG_UNHEALTHY))

C13_Witness ==
    /\ stats.printed
    /\ stats.tracked = 2
    /\ stats.in_fix = 1
    /\ stats.unhealthy = 1
    /\ \E i \in 1 .. NRF_MODEM_GNSS_MAX_SATELLITES :
          last_pvt.sv[i].sv = 0 /\ last_pvt.sv[i].flags = SvFlags

\* C14: a PVT notification whose read fails changes nothing: the semaphore
\* is not given and no poll event is signalled (no render is triggered), and
\* the snapshot, the last-fix timestamp, the search counter and the
\* first-render flag keep their values.
C14_FailedPvtReadChangesNothing ==
    [][(npvt' # npvt /\ evt'.outcome = "read_fail")
            => /\ pvt_data_sem' = pvt_data_sem
               /\ events' = events
               /\ pc' = pc
               /\ display_state' = display_state]_vars

C14_Witness ==
    /\ evt.kind = "pvt"
    /\ evt.outcome = "read_fail"
    /\ pc = "wait"
    /\ pvt_data_sem = 0
    /\ drawn # "none"

\* C15: every notification the handler drops (a PVT read failure, an NMEA
\* read failure, an NMEA allocation failure, a full NMEA queue) has emitted a
\* log entry at warning level when the handler returns.
C15_EveryDropIsLogged ==
    evt.outcome \in {"read_fail", "alloc_fail", "queue_full"}
        => evt.log = "wrn"

\* the whole string is a number: an optional sign, digits, an optional point
\* and digits, at least one digit, and nothing else
is_number(str) ==
    LET signed == Len(str) > 0 /\ str[1] \in {"-", "+"}
        i == IF signed THEN 2 ELSE 1
        n1 == digits_run(str, i)
        point == i + n1 <= Len(str) /\ str[i + n1] = "."
        n2 == IF point THEN digits_run(str, i + n1 + 1) ELSE 0
    IN  /\ n1 + n2 > 0
        /\ (i - 1) + n1 + (IF point THEN 1 ELSE 0) + n2 = Len(str)
malformed(str) == Len(str) > 0 /\ ~is_number(str)

\* C16: when one of the reference strings is not empty and is not a number,
\* the reference position is not used (ref_used is false) and no render
\* prints the distance line.
C16_MalformedReferenceDisablesDistance ==
    (malformed(cfg_lat) \/ malformed(cfg_lon))
        => (~ref_used /\ ~distance.printed)

\* C17: a render prints the distance line if and only if it took the fix
\* branch and both reference strings were configured non-empty; the reference
\* position, set before the loop starts, never changes.
C17_DistanceLineIffFixAndReference ==
    /\ [](distance.printed
            <=> (drawn = "fix" /\ Len(cfg_lat) > 0 /\ Len(cfg_lon) > 0))
    /\ [][UNCHANGED <<ref_used, ref_latitude, ref_longitude>>]_vars

C17_Witness ==
    /\ distance.printed
    /\ drawn = "fix"
    /\ cnt = 1
    /\ pc = "reset"

LoopPositions == {"poll", "wait", "take", "refresh", "stats", "flags",
                  "branch", "fixdata", "nmea", "free", "reset"}

\* C18: the main loop never ends.  After any sequence of notifications, with
\* any read failures, allocation failures and full-queue drops, the main
\* thread is at a position inside gnss_start_searching, and it can take its
\* next step unless it is blocked in k_poll with nothing pending: when the
\* semaphore is available or a record is queued while it is blocked, an event
\* is marked ready and k_poll returns.
C18_MainLoopNeverEnds ==
    /\ pc \in LoopPositions
    /\ pc # "wait" => ENABLED MainLoop
    /\ (pc = "wait" /\ (pvt_data_sem > 0 \/ Len(nmea_queue) > 0))
            => ENABLED Wake

C18_Witness ==
    /\ evt.outcome = "queue_full"
    /\ drawn # "none"
    /\ pc = "poll"
    /\ Len(nmea_queue) = NMEA_QUEUE_LEN - 1

\* C19: the distance is symmetric: the value distance_calculate returns for
\* the fix position and the reference position is exactly the value it
\* returns for the same two points in the other order.
C19_DistanceSymmetric ==
    distance.printed =>
        distance.value = distance_calculate(ref_latitude, ref_longitude,
                                            last_pvt.latitude,
                                            last_pvt.longitude)

\* C20: the distance of a point to itself is exactly 0.
C20_DistanceToSelfIsZero ==
    (/\ distance.printed
     /\ last_pvt.latitude = ref_latitude
     /\ last_pvt.longitude = ref_longitude) => distance.value = Zero

C20_Witness ==
    /\ distance.printed
    /\ last_pvt.latitude = ref_latitude
    /\ last_pvt.longitude = ref_longitude
    /\ ref_latitude # Zero
    /\ ref_longitude # Zero
    /\ distance.value = Zero

\* C21: the "Seconds since last fix" value a searching render prints is the
\* whole number of seconds between the uptime of the latest fix render (the
\* uptime at start if there was none) and the current uptime, also for
\* uptimes of 2^32 ms and more.
C21_SecondsSinceLastFix ==
    [][(pc = "branch" /\ pc' # pc /\ ~last_pvt.fix)
            => secs' = (uptime - fixed_at) \div MS_PER_SEC]_vars

\* C22: the first render erases nothing and every later render erases before
\* it draws: first_display is true until the first PVT signal is consumed and
\* false for ever after, and a render calls refresh_display if and only if a
\* render has been performed before.
C22_FirstRenderErasesNothing ==
    /\ [][first_display' => first_display]_vars
    /\ [][(pc = "take" /\ pc' = "refresh") => first_display = (drawn = "none")]_vars
    /\ [][(pc = "refresh" /\ pc' # pc)
            => /\ ~first_display'
               /\ (erased' # 0) <=> (drawn # "none")
               /\ (shown'.erase # NoTag) <=> (drawn # "none")]_vars

C22_Witness ==
    /\ pc = "stats"
    /\ erased # 0
    /\ drawn = "search"
    /\ ~first_display
    /\ cnt = 1

\* a render has completed whose parts all read frame t or a newer one
Rendered(t) ==
    /\ pc = "nmea"
    /\ did = <<"pvt">>
    /\ shown.stats >= t
    /\ shown.flags >= t
    /\ shown.branch >= t

\* C23: under fair scheduling of the main loop, every successful PVT read is
\* followed by a render that shows the frame read or a newer one, also while
\* NMEA records keep arriving; the PVT signal is never left unconsumed.
\* (pend >= 1: a successful read has not been consumed by k_sem_take yet.
\* The frames are numbered in the order they are read.)
C23_PvtEventuallyRendered ==
    /\ \A t \in 1..MaxPvtFew : (pend >= 1 /\ latest.tag = t) ~> Rendered(t)
    /\ (pvt_data_sem > 0) ~> (pvt_data_sem = 0)

C23_Witness ==
    /\ Rendered(latest.tag)
    /\ latest.tag >= 1
    /\ Len(nmea_queue) = NMEA_QUEUE_LEN
    /\ evt.kind = "nmea"

\* record b has been taken from the queue and freed by the call that ends
Freed(b) ==
    /\ pc = "reset"
    /\ nmea_data = b
    /\ b \notin heap
    /\ b \notin Range(nmea_queue)

\* the program is blocked in k_poll with nothing queued and nothing allocated
Drained ==
    /\ pc = "wait"
    /\ nmea_queue = <<>>
    /\ heap = {}

\* C24: under fair scheduling of the main loop every queued NMEA record is
\* eventually dequeued and freed; the queue shrinks only in the NMEA step of
\* gnss_start_searching, by its oldest record and at most once per call; once
\* the notifications have stopped the queue is empty, nothing is allocated and
\* the main loop stays blocked in k_poll.
C24_NmeaRecordsDrained ==
    /\ \A b \in Buffers : (b \in Range(nmea_queue)) ~> Freed(b)
    /\ [][Len(nmea_queue') < Len(nmea_queue)
            => /\ pc = "nmea" /\ pc' = "free"
               /\ "nmea" \notin Range(did)
               /\ nmea_queue' = Tail(nmea_queue)
               /\ nmea_data' = Head(nmea_queue)]_vars
    /\ [][(pc = "free" /\ pc' # pc) => did' = Append(did, "nmea")]_vars
    /\ <>[]Drained

C24_Witness ==
    /\ Freed(nmea_data)
    /\ "nmea" \in Range(did)
    /\ Len(nmea_queue) = 1
    /\ nnmea = 2

\* C25: a render of a frame with no advisory flag and no reference position
\* writes as many terminal lines as refresh_display erases for its view, 4
\* when searching and 20 with a fix; every advisory flag that is set and the
\* distance line of a fix render add lines beyond that height (two each: the
\* message and the line feed in its text).  pc = "nmea" is the end of a
\* render; in SpecLines last_pvt is the frame the whole render read.
C25_EraseHeightsMatchPlainRenders ==
    (pc = "nmea" /\ did = <<"pvt">>) =>
        /\ drawn = (IF last_pvt.fix THEN "fix" ELSE "search")
        /\ erased \in {0, IF last_pvt.fix THEN 20 ELSE 4}
        /\ (last_pvt.flags = {} /\ ~ref_used)
              => written = (IF last_pvt.fix THEN 20 ELSE 4)
        /\ written = lines_to_clear(last_pvt.fix)
                        + 2 * Cardinality(last_pvt.flags)
                        + (IF last_pvt.fix /\ ref_used THEN 2 ELSE 0)
        /\ (last_pvt.flags # {} \/ (last_pvt.fix /\ ref_used))
              => written > lines_to_clear(last_pvt.fix)

C25_Witness ==
    /\ pc = "nmea" /\ did = <<"pvt">>
    /\ last_pvt.fix /\ last_pvt.flags = {} /\ ~ref_used
    /\ erased = 20
    /\ written = 20

====
